---- MODULE Spec2Model ----
(***************************************************************************)
(* RAG-System backend: the asynchronous document-ingestion pipeline        *)
(* (api/rag.py process_document_async), the per-user Milvus collection     *)
(* manager (module/milvus_service.py) and the question pipeline            *)
(* (api/rag.py ask_question) with its Redis answer cache                   *)
(* (module/redis_service.py).                                              *)
(*                                                                         *)
(* Scheduling.  The server is one uvicorn process (main.py:94).            *)
(* upload_document and process_document_async are coroutines of the one    *)
(* event loop and process_document_async contains no await, so an          *)
(* ingestion execution runs to completion before the loop runs any other   *)
(* coroutine: at most one execution is in progress, and no upload is       *)
(* served meanwhile.  ask_question is a plain def, which FastAPI runs in   *)
(* a worker thread: its calls interleave with the running ingestion at    *)
(* every call to Redis, Milvus, the providers and the database.  Every     *)
(* such call is one step here, and every call to an external service may   *)
(* raise.  One worker thread serves the calls of one user.                 *)
(*                                                                         *)
(* Abstractions.  A vector is its length (dim), the document it is tagged  *)
(* with and the primary key Milvus gave it.  An error message is its       *)
(* length in characters.  Milvus is modelled by its contract: a collection *)
(* has one schema dimension, insert and search reject vectors of another   *)
(* length, drop removes the collection with its vectors.  Commits to the   *)
(* Document Store by process_document_async are taken to succeed.          *)
(*                                                                         *)
(* Also modelled: delete_document (api/rag.py:859-900), which removes the  *)
(* row and the cached answers and leaves Milvus alone, and the start-up    *)
(* routine connect_to_milvus (module/milvus_service.py:26-65) with its     *)
(* retry loop.  Spec is the ingestion and question pipelines together;     *)
(* SpecLive adds weak fairness of the ingestion steps; the smaller         *)
(* specifications (SpecDuplicate, SpecMigrate, SpecSpelling, SpecDelete,   *)
(* SpecCache, SpecConnect) each exercise one part of the program alone.    *)
(***************************************************************************)
EXTENDS Integers, Sequences, FiniteSets, TLC

\* ---------------------------------------------------------------- bounds
MaxDocs == 2
MaxDim == 2
MaxChunks == 2
MaxAsks == 1
MaxDuplicates == 1
MaxRetries == 5
LongError == 300

\* ------------------------------------------------------ program constants
\* config/dev.py:40 VECTOR_DIM (1536 there), scaled into 1..MaxDim
ConfiguredDim == 1
\* len("文档没有有效的存储路径"), rag.py:194
NoPathMsgLen == 11
\* len("Milvus服务不可用，文档已上传但未生成向量索引"), rag.py:171
NoMilvusMsgLen == 25
\* len("Milvus集合操作失败: "), rag.py:241
CollectionPrefixLen == 14
\* len("向量生成失败，无法处理文档内容"), rag.py:296
NoVectorMsgLen == 15
\* len("向量数据插入失败: "), rag.py:311
InsertPrefixLen == 10
\* str(e)[:200], rag.py:241 and rag.py:311
DetailCut == 200
\* str(e)[:255], rag.py:328
GenericCut == 255
\* Column(String(255)) error_message, models.py:105
ErrorColumnLen == 255
\* search_similar_vectors(..., limit=5), rag.py:734
SearchLimit == 5

Users == {1}
Threads == {1}
\* a question is the sequence of its characters
Questions == {<<"a", " ", "b">>}
\* the same question as clients may type it, and a different one
Spellings ==
    Questions \cup {<<" ", "a", " ", "b">>, <<"a", " ", " ", "b">>,
                    <<"a", " ", "b", " ">>, <<"a", "b">>}
\* the users whose answers Redis holds, and the questions they share
CacheUsers == Users \cup {2}
CacheQuestions == Questions \cup {<<"a", "b">>}
Dims == 1..MaxDim
ErrLens == {LongError}

Min(a, b) == IF a < b THEN a ELSE b

VARIABLES
    MILVUS_AVAILABLE,   \* rag.py:20-25, fixed when the module is imported
    VECTOR_DIM,         \* rag.py module global, rewritten by both pipelines
    docs,               \* documents table: id -> row
    queue,              \* tasks created by asyncio.create_task, not yet started
    ing,                \* the process_document_async execution in progress
    duplicates,         \* duplicate triggers issued (SpecDuplicate only)
    coll,               \* Milvus: user -> collection docs_user_<id>
    nextId,             \* Milvus auto_id primary key
    lastEnsured,        \* per user: dim of the create_user_collection call that
                        \* returned last with no drop/create of the collection since
    ask,                \* ask_question call of each worker thread
    cache,              \* Redis: (user, question) -> answer
    history,            \* qa_history table
    conn                \* the connect_to_milvus call in progress

vars == <<MILVUS_AVAILABLE, VECTOR_DIM, docs, queue, ing, duplicates, coll,
          nextId, lastEnsured, ask, cache, history, conn>>

\* ------------------------------------------------------------ data shapes
Null == [set |-> FALSE, len |-> 0]
Msg(n) == [set |-> TRUE, len |-> n]

NoCollection == [exists |-> FALSE, dim |-> 0, vecs |-> {}]
EmptyCollection(d) == [exists |-> TRUE, dim |-> d, vecs |-> {}]

\* one create_user_collection call: its argument, what it saw, what it did
NoCall == [state |-> "none", dim |-> 0, preExists |-> FALSE, preDim |-> 0,
           preHeld |-> FALSE, preNext |-> 0, repeat |-> FALSE,
           dropped |-> FALSE, created |-> FALSE, postDim |-> 0,
           postFresh |-> FALSE]

IdleIng == [pc |-> "idle", doc |-> 0, user |-> 0,
            observed |-> "none", nchunks |-> 0, mdim |-> 0, actual |-> 0,
            nvec |-> 0, measured |-> FALSE, touched |-> FALSE,
            call |-> NoCall]

\* the status of a documents row that has been deleted
Gone == "<no row>"

NoEntry == "<nil>"
RedisError == "<redis error>"
NoDocsYet == "no documents yet"
ConfigError == "retrieval misconfigured"
NothingFound == "nothing found"
Apology == "generation failed"
Http500 == "HTTP 500"
GeneratedAnswers == {"answer", ""}

IdleAsk == [pc |-> "idle", n |-> 0, user |-> 0, q |-> <<>>, lookup |-> NoEntry,
            hit |-> FALSE, sawColl |-> "unknown", qdim |-> 0,
            embedded |-> "none", hasHits |-> FALSE, answer |-> NoEntry,
            result |-> NoEntry, embedCalls |-> 0, genCalls |-> 0,
            storeCalls |-> 0, cacheWrites |-> 0, histWrites |-> 0,
            storeFault |-> "none", genFailed |-> FALSE, cacheCalls |-> 0,
            call |-> NoCall]

\* one connect_to_milvus call: its argument, the loop variable, the
\* connection attempts made, the sleeps taken, how it ended
NoConn == [pc |-> "idle", max_retries |-> 0, attempt |-> 0, attempts |-> 0,
           slept |-> <<>>, result |-> "none"]

\* --------------------------------------------------------------- Init
Init ==
    /\ MILVUS_AVAILABLE \in BOOLEAN
    /\ VECTOR_DIM = ConfiguredDim
    /\ docs = <<>>
    /\ queue = <<>>
    /\ ing = IdleIng
    /\ duplicates = 0
    \* signup (api/auth.py:61) calls create_user_collection(user.id): the
    \* collection is there with the configured dimension unless that failed
    /\ coll \in [Users -> {NoCollection, EmptyCollection(ConfiguredDim)}]
    /\ nextId = 1
    /\ lastEnsured = [u \in Users |->
            IF coll[u].exists THEN ConfiguredDim ELSE 0]
    /\ ask = [t \in Threads |-> IdleAsk]
    /\ cache = [k \in CacheUsers \X Spellings |-> NoEntry]
    /\ history = <<>>
    /\ conn = NoConn

\* --------------------------------------------------- error_message texts
\* rag.py:241  f"Milvus集合操作失败: {str(milvus_error)[:200]}"
CollectionErrorMsg(len) == Msg(CollectionPrefixLen + Min(len, DetailCut))
\* rag.py:311  f"向量数据插入失败: {str(insert_error)[:200]}"
InsertErrorMsg(len) == Msg(InsertPrefixLen + Min(len, DetailCut))
\* fault: the exception text stored whole
WholeErrorMsg(len) == Msg(len)

\* rag.py:328  str(e)[:255]
GenericErrorMsg(len) == Msg(Min(len, GenericCut))

\* ----------------------------------------------------- connect_to_milvus
\* fault: the last attempt is not recognised
IsLastAttemptLate(attempt, max_retries) == attempt = max_retries

\* milvus_service.py:58 `if attempt == max_retries - 1`
IsLastAttempt(attempt, max_retries) == attempt = max_retries - 1

\* milvus_service.py:63 time.sleep(2 ** attempt)
Backoff(attempt) == 2 ^ attempt

\* milvus_service.py:26-38: the call starts; `for attempt in
\* range(max_retries)` has nothing to run when max_retries is 0 and the
\* function returns False (line 65)
ConnectCall(n) ==
    /\ conn.pc \in {"idle", "returned", "raised"}
    /\ conn' = IF n > 0
               THEN [NoConn EXCEPT !.pc = "try", !.max_retries = n]
               ELSE [NoConn EXCEPT !.pc = "returned", !.result = "False"]
    /\ UNCHANGED <<MILVUS_AVAILABLE, VECTOR_DIM, docs, queue, ing,
                   duplicates, coll, nextId, lastEnsured, ask, cache,
                   history>>

\* milvus_service.py:39-60: connections.connect returns and the function
\* returns True, or it raises: the last attempt re-raises, the others go
\* on to the sleep
ConnectAttempt ==
    /\ conn.pc = "try"
    /\ \E connected \in BOOLEAN :
        conn' = IF connected
                THEN [conn EXCEPT !.pc = "returned", !.result = "True",
                                  !.attempts = @ + 1]
                ELSE IF IsLastAttempt(conn.attempt, conn.max_retries)
                THEN [conn EXCEPT !.pc = "raised", !.result = "raised",
                                  !.attempts = @ + 1]
                ELSE [conn EXCEPT !.pc = "sleep", !.attempts = @ + 1]
    /\ UNCHANGED <<MILVUS_AVAILABLE, VECTOR_DIM, docs, queue, ing,
                   duplicates, coll, nextId, lastEnsured, ask, cache,
                   history>>

\* milvus_service.py:61-65: the sleep, then the next round of the loop, or
\* `return False` when the range is used up
ConnectSleep ==
    /\ conn.pc = "sleep"
    /\ conn' = LET c == [conn EXCEPT
                            !.slept = Append(@, Backoff(conn.attempt)),
                            !.attempt = @ + 1]
               IN  IF c.attempt < c.max_retries THEN [c EXCEPT !.pc = "try"]
                   ELSE [c EXCEPT !.pc = "returned", !.result = "False"]
    /\ UNCHANGED <<MILVUS_AVAILABLE, VECTOR_DIM, docs, queue, ing,
                   duplicates, coll, nextId, lastEnsured, ask, cache,
                   history>>

\* ------------------------------------------------ create_user_collection
\* An external call returns ("ok"), raises before it took effect ("raise"),
\* or raises after it took effect ("late": a timeout, or create_index
\* failing on the collection just created).
Faults == {"ok", "raise", "late"}

\* milvus_service.py:70  actual_dim = vector_dim or VECTOR_DIM
\* (0 stands for None and for the length of an empty vector)
ActualDim(vector_dim) == IF vector_dim = 0 THEN ConfiguredDim ELSE vector_dim

\* fault: an existing collection is taken as it is, whatever its dimension
CheckResultKeep(col, dim) ==
    IF ~col.exists THEN "create" ELSE "return"

\* fault: an existing collection is rebuilt on every call
CheckResultRebuild(col, dim) ==
    IF ~col.exists THEN "create" ELSE "drop"

\* milvus_service.py:75-99: what the call does after reading the schema
CheckResult(col, dim) ==
    IF ~col.exists THEN "create"
    ELSE IF col.dim # dim THEN "drop"
    ELSE "return"

CucBegin(vector_dim) ==
    [NoCall EXCEPT !.state = "check", !.dim = ActualDim(vector_dim)]

\* the call record at the moment the call returns, with the collection as
\* it is then
Returned(c, col) ==
    [c EXCEPT !.state = "returned", !.postDim = col.dim,
              !.postFresh = \A v \in col.vecs : v.id >= c.preNext]

\* milvus_service.py:107-111: Collection(name, schema) creates the
\* collection, returns the existing one when the schema is the same and
\* raises when it differs
CreateResult(col, dim) ==
    IF ~col.exists THEN EmptyCollection(dim) ELSE col

CreateAccepted(col, dim) == ~col.exists \/ col.dim = dim

\* the collection of user u after the step of call c that ends with fault f
CucColl(u, c, f) ==
    CASE c.state = "drop" /\ f # "raise" -> NoCollection
      [] c.state = "create" /\ f # "raise" /\ CreateAccepted(coll[u], c.dim)
            -> CreateResult(coll[u], c.dim)
      [] OTHER -> coll[u]

\* the call record after that step
CucCall(u, c, f) ==
    CASE c.state = "check" ->
            IF f # "ok" THEN [c EXCEPT !.state = "raised"]
            ELSE LET seen == [c EXCEPT !.preExists = coll[u].exists,
                                       !.preDim = coll[u].dim,
                                       !.preHeld = coll[u].vecs # {},
                                       !.preNext = nextId,
                                       !.repeat = (lastEnsured[u] = c.dim)]
                     r == CheckResult(coll[u], c.dim)
                 IN  IF r = "return" THEN Returned(seen, coll[u])
                     ELSE [seen EXCEPT !.state = r]
      [] c.state = "drop" ->
            IF f = "ok" THEN [c EXCEPT !.state = "create", !.dropped = TRUE]
            ELSE [c EXCEPT !.state = "raised", !.dropped = (f = "late")]
      [] c.state = "create" ->
            LET made == f # "raise" /\ ~coll[u].exists
                c1 == [c EXCEPT !.created = made]
            IN  IF f = "ok" /\ CreateAccepted(coll[u], c.dim)
                THEN Returned(c1, CucColl(u, c, f))
                ELSE [c1 EXCEPT !.state = "raised"]
      [] OTHER -> c

\* one step of a create_user_collection call for user u: the store and the
\* record of what the last returned call ensured
CucStep(u, c, f) ==
    /\ c.state \in {"check", "drop", "create"}
    /\ coll' = [coll EXCEPT ![u] = CucColl(u, c, f)]
    /\ lastEnsured' = [lastEnsured EXCEPT ![u] =
            IF CucCall(u, c, f).state = "returned" THEN c.dim
            ELSE IF c.state = "check" THEN @
            ELSE IF CucColl(u, c, f) # coll[u] THEN 0 ELSE @]

\* -------------------------------------------------------------- upload
\* rag.py:393-438 upload_document: the row is committed with status pending
\* and the ingestion task is created, with nothing awaited in between
Upload(u) ==
    /\ ing.pc = "idle"
    /\ Len(docs) < MaxDocs
    /\ docs' = Append(docs, [user |-> u, status |-> "pending",
                             error_message |-> Null])
    /\ queue' = Append(queue, Len(docs) + 1)
    /\ UNCHANGED <<conn, MILVUS_AVAILABLE, VECTOR_DIM, ing, duplicates, coll,
                   nextId, lastEnsured, ask, cache, history>>

\* ------------------------------------------------- process_document_async
\* document.status = s; document.error_message = m; commit().  When the
\* row has been deleted meanwhile nothing is written (the commit fails and
\* the handler at rag.py:321-328 finds no document)
SetStatus(d, s, m) ==
    docs' = IF docs[d].status = Gone THEN docs
            ELSE [docs EXCEPT ![d].status = s, ![d].error_message = m]

\* fault: the error is logged and the row is left as it was
FailSilently(d, m) == UNCHANGED docs

\* rag.py:194-198, 239-243, 295-298, 309-313, 324-329: the execution gives
\* up and commits failed with a message
Fail(d, m) == SetStatus(d, "failed", m)

\* fault: the execution starts its work and leaves the status as found
StartStatusLate(observed) == observed

\* rag.py:153-160: the status written when the execution starts
StartStatus(observed) == "processing"

\* rag.py:149-161: the task starts, finds the row and commits processing;
\* it returns at once when the row is not there
IngStart ==
    /\ ing.pc = "idle"
    /\ queue # <<>>
    /\ LET d == Head(queue) IN
        IF docs[d].status = Gone
        THEN UNCHANGED <<ing, docs>>
        ELSE /\ ing' = [IdleIng EXCEPT !.pc = "deps", !.doc = d,
                                       !.user = docs[d].user,
                                       !.observed = docs[d].status]
             /\ docs' = [docs EXCEPT
                             ![d].status = StartStatus(docs[d].status)]
    /\ queue' = Tail(queue)
    /\ UNCHANGED <<conn, MILVUS_AVAILABLE, VECTOR_DIM, duplicates, coll, nextId,
                   lastEnsured, ask, cache, history>>

\* rag.py:167-173: without Milvus the document is marked processed, with a
\* message, and nothing is indexed
IngDeps ==
    /\ ing.pc = "deps"
    /\ IF MILVUS_AVAILABLE
       THEN /\ ing' = [ing EXCEPT !.pc = "load"]
            /\ UNCHANGED docs
       ELSE /\ SetStatus(ing.doc, "processed", Msg(NoMilvusMsgLen))
            /\ ing' = IdleIng
    /\ UNCHANGED <<conn, MILVUS_AVAILABLE, VECTOR_DIM, queue, duplicates, coll,
                   nextId, lastEnsured, ask, cache, history>>

\* rag.py:177-198 and 321-329: process_document loads and splits the file
\* and builds the embedding model (dimension mdim), or raises; a
\* storage_result with neither path fails the document
IngLoad ==
    /\ ing.pc = "load"
    /\ \E hasPath \in BOOLEAN :
       IF ~hasPath
       THEN /\ Fail(ing.doc, Msg(NoPathMsgLen))
            /\ ing' = IdleIng
       ELSE \/ \E len \in ErrLens :
                /\ Fail(ing.doc, GenericErrorMsg(len))
                /\ ing' = IdleIng
            \/ \E n \in 0..MaxChunks, d \in Dims :
                /\ ing' = [ing EXCEPT !.pc = "probe", !.nchunks = n,
                                      !.mdim = d]
                /\ UNCHANGED docs
    /\ UNCHANGED <<conn, MILVUS_AVAILABLE, VECTOR_DIM, queue, duplicates, coll,
                   nextId, lastEnsured, ask, cache, history>>

\* rag.py:215-231: the dimension handed to create_user_collection: the
\* length of the probe vector, or the global VECTOR_DIM when there is no
\* chunk or the probe fails or is malformed
ProbedDim(nchunks, probeOk, mdim) ==
    IF nchunks > 0 /\ probeOk THEN mdim ELSE VECTOR_DIM

IngProbe ==
    /\ ing.pc = "probe"
    /\ \E probeOk \in BOOLEAN :
        LET dim == ProbedDim(ing.nchunks, probeOk, ing.mdim) IN
        /\ ing' = [ing EXCEPT !.pc = "ensure", !.actual = dim,
                              !.measured = (ing.nchunks > 0 /\ probeOk),
                              !.call = CucBegin(dim)]
        /\ VECTOR_DIM' = dim
    /\ UNCHANGED <<conn, MILVUS_AVAILABLE, docs, queue, duplicates, coll, nextId,
                   lastEnsured, ask, cache, history>>

\* rag.py:234 and 238-243: create_user_collection(user_id, actual_vector_dim),
\* one Milvus call at a time; any exception fails the document
IngEnsure ==
    /\ ing.pc = "ensure"
    /\ \E f \in Faults :
        LET c2 == CucCall(ing.user, ing.call, f) IN
        /\ CucStep(ing.user, ing.call, f)
        /\ IF c2.state = "raised"
           THEN /\ \E len \in ErrLens :
                     Fail(ing.doc, CollectionErrorMsg(len))
                /\ ing' = IdleIng
           ELSE /\ ing' = [ing EXCEPT !.call = c2,
                        !.touched = @ \/ CucColl(ing.user, ing.call, f)
                                             # coll[ing.user],
                        !.pc = IF c2.state = "returned" THEN "cload"
                               ELSE "ensure"]
                /\ UNCHANGED docs
    /\ UNCHANGED <<conn, MILVUS_AVAILABLE, VECTOR_DIM, queue, duplicates, nextId,
                   ask, cache, history>>

\* rag.py:235-243: Collection(name) and load()
IngCollLoad ==
    /\ ing.pc = "cload"
    /\ \E f \in Faults :
        IF f = "ok" /\ coll[ing.user].exists
        THEN /\ ing' = [ing EXCEPT !.pc = "embed", !.call = NoCall]
             /\ UNCHANGED docs
        ELSE /\ \E len \in ErrLens :
                  Fail(ing.doc, CollectionErrorMsg(len))
             /\ ing' = IdleIng
    /\ UNCHANGED <<conn, MILVUS_AVAILABLE, VECTOR_DIM, queue, duplicates, coll,
                   nextId, lastEnsured, ask, cache, history>>

\* rag.py:251-290: one embed_query per chunk (with the second attempt for
\* Ollama models); a chunk whose embedding fails or is malformed is skipped
IngEmbed ==
    /\ ing.pc = "embed"
    /\ \E good \in SUBSET (1..ing.nchunks) :
        ing' = [ing EXCEPT !.pc = "insert", !.nvec = Cardinality(good)]
    /\ UNCHANGED <<conn, MILVUS_AVAILABLE, VECTOR_DIM, docs, queue, duplicates,
                   coll, nextId, lastEnsured, ask, cache, history>>

\* fault: a store that takes rows of any length
InsertAcceptedAnyDim(col, vdim) == col.exists

\* rag.py:305: Milvus takes the rows when the collection exists and the
\* vectors have the length of its schema
InsertAccepted(col, vdim) == col.exists /\ col.dim = vdim

NewVectors(d, vdim, n) ==
    {[id |-> nextId + i, doc |-> d, dim |-> vdim] : i \in 0..(n - 1)}

\* fault: the document is given up as soon as one chunk was skipped
AnyChunkSkipped(nvec, nchunks) == nvec < nchunks \/ nvec = 0

\* rag.py:293: `if not vectors or len(vectors) == 0`
NoUsableVector(nvec, nchunks) == nvec = 0

\* rag.py:293-313: no vector fails the document; otherwise insert and flush
IngInsert ==
    /\ ing.pc = "insert"
    /\ IF NoUsableVector(ing.nvec, ing.nchunks)
       THEN /\ Fail(ing.doc, Msg(NoVectorMsgLen))
            /\ ing' = IdleIng
            /\ UNCHANGED <<coll, nextId>>
       ELSE \E f \in Faults :
            LET taken == f # "raise"
                         /\ InsertAccepted(coll[ing.user], ing.mdim) IN
            /\ IF taken
               THEN /\ coll' = [coll EXCEPT ![ing.user].vecs = @ \cup
                               NewVectors(ing.doc, ing.mdim, ing.nvec)]
                    /\ nextId' = nextId + ing.nvec
               ELSE UNCHANGED <<coll, nextId>>
            /\ IF taken /\ f = "ok"
               THEN /\ ing' = [ing EXCEPT !.pc = "finish"]
                    /\ UNCHANGED docs
               ELSE /\ \E len \in ErrLens :
                         Fail(ing.doc, InsertErrorMsg(len))
                    /\ ing' = IdleIng
    /\ UNCHANGED <<conn, MILVUS_AVAILABLE, VECTOR_DIM, queue, duplicates,
                   lastEnsured, ask, cache, history>>

\* rag.py:315-318
IngFinish ==
    /\ ing.pc = "finish"
    /\ SetStatus(ing.doc, "processed", Null)
    /\ ing' = IdleIng
    /\ UNCHANGED <<conn, MILVUS_AVAILABLE, VECTOR_DIM, queue, duplicates, coll,
                   nextId, lastEnsured, ask, cache, history>>

Ingest ==
    \/ IngStart \/ IngDeps \/ IngLoad \/ IngProbe \/ IngEnsure
    \/ IngCollLoad \/ IngEmbed \/ IngInsert \/ IngFinish

\* ------------------------------------------------------------ answer cache
\* fault: the key is made of the question alone
CacheKeyOfQuestion(u, q) == <<1, q>>

\* redis_service.py:46 and 59: "qa:cache:" + md5(f"{user_id}:{question}"),
\* of the question as given; md5 is taken to be injective
CacheKey(u, q) == <<u, q>>


\* redis_service.py:60: what redis_client.get gives
Reply(u, q, redisOk) ==
    IF redisOk THEN cache[CacheKey(u, q)] ELSE RedisError

\* redis_service.py:62: `if cached_answer:` -- nil and the empty value are
\* misses
IsHit(value) == value \notin {NoEntry, RedisError, ""}

\* redis_service.py:54-71 get_cached_qa_result: a Redis error is a miss
CachedAnswer(u, q, redisOk) ==
    IF IsHit(Reply(u, q, redisOk)) THEN Reply(u, q, redisOk) ELSE NoEntry

\* redis_service.py:41-51 cache_qa_result(user_id, question, answer): the
\* value is stored under the key; a Redis error is logged and dropped
CacheQaResult(u, q, v) ==
    /\ \E redisOk \in BOOLEAN :
        cache' = IF redisOk THEN [cache EXCEPT ![CacheKey(u, q)] = v]
                 ELSE cache
    /\ UNCHANGED <<conn, MILVUS_AVAILABLE, VECTOR_DIM, docs, queue, ing,
                   duplicates, coll, nextId, lastEnsured, ask, history>>

\* the entry expires (ex=3600, redis_service.py:41)
Expire(u, q) ==
    /\ cache[CacheKey(u, q)] # NoEntry
    /\ cache' = [cache EXCEPT ![CacheKey(u, q)] = NoEntry]
    /\ UNCHANGED <<conn, MILVUS_AVAILABLE, VECTOR_DIM, docs, queue, ing,
                   duplicates, coll, nextId, lastEnsured, ask, history>>

\* ------------------------------------------------------------ ask_question
\* the call returns r; the answer it had computed and what it did stay on
\* record
Finish(a, r) ==
    [a EXCEPT !.pc = "done", !.result = r, !.qdim = 0, !.call = NoCall]

\* fault: the cached answer is found and the pipeline runs all the same
AfterLookupNoReturn(a, value) ==
    [a EXCEPT !.pc = "has", !.hit = (value # NoEntry)]

\* rag.py:640-642: where the call goes after the cache lookup
AfterLookup(a, value) ==
    IF value # NoEntry
    THEN Finish([a EXCEPT !.hit = TRUE], value)
    ELSE [a EXCEPT !.pc = "has"]

\* rag.py:636-642: the call starts with the cache lookup; lookup keeps what
\* Redis replied
AskBegin(t, u, q) ==
    /\ ask[t].pc \in {"idle", "done"}
    /\ \E redisOk \in BOOLEAN :
        ask' = [ask EXCEPT ![t] =
                  AfterLookup([IdleAsk EXCEPT !.n = ask[t].n, !.user = u,
                                   !.q = q, !.lookup = Reply(u, q, redisOk)],
                              CachedAnswer(u, q, redisOk))]
    /\ UNCHANGED <<conn, MILVUS_AVAILABLE, VECTOR_DIM, docs, queue, ing,
                   duplicates, coll, nextId, lastEnsured, cache, history>>

\* fault: the pipeline goes on without a collection
AfterHasCollectionProceed(a, exists) ==
    [a EXCEPT !.pc = "embed", !.sawColl = IF exists THEN "yes" ELSE "no"]

\* rag.py:648-651: where the call goes after utility.has_collection
AfterHasCollection(a, exists) ==
    IF exists THEN [a EXCEPT !.pc = "embed", !.sawColl = "yes"]
    ELSE Finish([a EXCEPT !.sawColl = "no"], NoDocsYet)

\* rag.py:645-651 (831-833 when pymilvus cannot be imported or the call
\* raises)
AskHas(t) ==
    /\ ask[t].pc = "has"
    /\ ask[t].n < MaxAsks
    /\ \E f \in Faults :
        ask' = [ask EXCEPT ![t] =
            LET a == [@ EXCEPT !.n = @ + 1, !.lookup = NoEntry] IN
            IF ~MILVUS_AVAILABLE
            THEN Finish([a EXCEPT !.storeFault = "has_collection"], Http500)
            ELSE IF f # "ok"
            THEN Finish([a EXCEPT !.storeCalls = @ + 1,
                                  !.storeFault = "has_collection"], Http500)
            ELSE AfterHasCollection([a EXCEPT !.storeCalls = @ + 1],
                                    coll[a.user].exists)]
    /\ UNCHANGED <<conn, MILVUS_AVAILABLE, VECTOR_DIM, docs, queue, ing,
                   duplicates, coll, nextId, lastEnsured, cache, history>>

\* rag.py:655-715 and 727-730: the question is embedded; its length becomes
\* VECTOR_DIM and the argument of create_user_collection.  When the model
\* cannot be built or embed_query raises, the query vector is
\* [0.1] * VECTOR_DIM and the collection is not checked
AskEmbed(t) ==
    /\ ask[t].pc = "embed"
    /\ \/ /\ ask' = [ask EXCEPT ![t] =
                [@ EXCEPT !.pc = "shas", !.embedded = "failed",
                          !.qdim = VECTOR_DIM, !.embedCalls = @ + 1]]
          /\ UNCHANGED VECTOR_DIM
       \/ \E d \in Dims :
          /\ ask' = [ask EXCEPT ![t] =
                [@ EXCEPT !.pc = "ensure", !.embedded = "ok", !.qdim = d,
                          !.embedCalls = @ + 1, !.call = CucBegin(d)]]
          /\ VECTOR_DIM' = d
    /\ UNCHANGED <<conn, MILVUS_AVAILABLE, docs, queue, ing, duplicates, coll,
                   nextId, lastEnsured, cache, history>>

\* rag.py:718-726: create_user_collection(current_user.id, actual_vector_dim);
\* an exception is answered with the configuration sentinel
AskEnsure(t) ==
    /\ ask[t].pc = "ensure"
    /\ \E f \in Faults :
        LET c2 == CucCall(ask[t].user, ask[t].call, f) IN
        /\ CucStep(ask[t].user, ask[t].call, f)
        /\ ask' = [ask EXCEPT ![t] =
              LET a == [@ EXCEPT !.call = c2, !.storeCalls = @ + 1] IN
              IF c2.state = "raised"
              THEN Finish([a EXCEPT !.storeFault = "create_user_collection"],
                          ConfigError)
              ELSE IF c2.state = "returned" THEN [a EXCEPT !.pc = "shas"]
              ELSE a]
    /\ UNCHANGED <<conn, MILVUS_AVAILABLE, VECTOR_DIM, docs, queue, ing,
                   duplicates, nextId, cache, history>>

\* milvus_service.py:204-206: no collection, no results
AskSearchHas(t) ==
    /\ ask[t].pc = "shas"
    /\ \E f \in Faults :
        ask' = [ask EXCEPT ![t] =
            LET a == [@ EXCEPT !.storeCalls = @ + 1, !.call = NoCall] IN
            IF f # "ok"
            THEN Finish([a EXCEPT !.storeFault = "has_collection"], Http500)
            ELSE IF coll[a.user].exists THEN [a EXCEPT !.pc = "search"]
            ELSE [a EXCEPT !.pc = "gen", !.hasHits = FALSE]]
    /\ UNCHANGED <<conn, MILVUS_AVAILABLE, VECTOR_DIM, docs, queue, ing,
                   duplicates, coll, nextId, lastEnsured, cache, history>>

\* milvus_service.py:215-221: Milvus searches when the collection is there
\* and the query vector has the length of its schema
SearchAccepted(col, qdim) == col.exists /\ col.dim = qdim

\* rag.py:738-741: the context is non-empty when there is a hit
HitCount(col) == Min(SearchLimit, Cardinality(col.vecs))

\* milvus_service.py:209-227 Collection(name), load(), search(); an
\* exception leaves ask_question through rag.py:831-833
AskSearch(t) ==
    /\ ask[t].pc = "search"
    /\ \E f \in Faults :
        ask' = [ask EXCEPT ![t] =
            LET a == [@ EXCEPT !.storeCalls = @ + 1] IN
            IF f # "ok"
            THEN Finish([a EXCEPT !.storeFault = "search"], Http500)
            ELSE IF SearchAccepted(coll[a.user], a.qdim)
            THEN [a EXCEPT !.pc = "gen",
                           !.hasHits = HitCount(coll[a.user]) > 0]
            ELSE Finish([a EXCEPT !.storeFault = "search rejected"],
                        Http500)]
    /\ UNCHANGED <<conn, MILVUS_AVAILABLE, VECTOR_DIM, docs, queue, ing,
                   duplicates, coll, nextId, lastEnsured, cache, history>>

\* fault: the provider's error leaves ask_question
GenerationFailedRaises(a) ==
    Finish([a EXCEPT !.genFailed = TRUE, !.genCalls = @ + 1], Http500)

\* rag.py:811-813: building the chat model or invoking it raised
GenerationFailed(a) ==
    [a EXCEPT !.pc = "cache", !.answer = Apology, !.genFailed = TRUE,
              !.genCalls = @ + 1]

\* fault: the chat model is called whatever the context
AlwaysGenerate(a) == TRUE

\* rag.py:738-745 `if context:` -- every hit adds its content and a line
\* break, so the context is empty exactly when there is no hit
ContextGiven(a) == a.hasHits

\* rag.py:745-813: the chat model is called when the context is not empty
AskGenerate(t) ==
    /\ ask[t].pc = "gen"
    /\ IF ContextGiven(ask[t])
       THEN \/ \E text \in GeneratedAnswers :
                ask' = [ask EXCEPT ![t] =
                    [@ EXCEPT !.pc = "cache", !.answer = text,
                              !.genCalls = @ + 1]]
            \/ ask' = [ask EXCEPT ![t] = GenerationFailed(@)]
       ELSE ask' = [ask EXCEPT ![t] =
                    [@ EXCEPT !.pc = "cache", !.answer = NothingFound]]
    /\ UNCHANGED <<conn, MILVUS_AVAILABLE, VECTOR_DIM, docs, queue, ing,
                   duplicates, coll, nextId, lastEnsured, cache, history>>

\* rag.py:817 and redis_service.py:41-51 cache_qa_result: a Redis error is
\* logged and dropped
AskCache(t) ==
    /\ ask[t].pc = "cache"
    /\ \E redisOk \in BOOLEAN :
        /\ cache' = IF redisOk
                    THEN [cache EXCEPT ![CacheKey(ask[t].user, ask[t].q)] =
                                          ask[t].answer]
                    ELSE cache
        /\ ask' = [ask EXCEPT ![t] =
                [@ EXCEPT !.pc = "hist", !.cacheCalls = @ + 1,
                          !.cacheWrites = @ + (IF redisOk THEN 1 ELSE 0)]]
    /\ UNCHANGED <<conn, MILVUS_AVAILABLE, VECTOR_DIM, docs, queue, ing,
                   duplicates, coll, nextId, lastEnsured, history>>

\* fault: the row records the sentinel, whatever the answer
HistoryRowOfSentinel(a) ==
    [user |-> a.user, question |-> a.q, answer |-> NothingFound]

\* rag.py:821-825: QAHistory(user_id, question, answer)
HistoryRow(a) == [user |-> a.user, question |-> a.q, answer |-> a.answer]

\* rag.py:821-833: the QAHistory row; a failed commit is an HTTP 500
AskHistory(t) ==
    /\ ask[t].pc = "hist"
    /\ \E dbOk \in BOOLEAN :
        IF dbOk
        THEN /\ history' = Append(history, HistoryRow(ask[t]))
             /\ ask' = [ask EXCEPT ![t] =
                    Finish([@ EXCEPT !.histWrites = @ + 1], @.answer)]
        ELSE /\ ask' = [ask EXCEPT ![t] = Finish(@, Http500)]
             /\ UNCHANGED history
    /\ UNCHANGED <<conn, MILVUS_AVAILABLE, VECTOR_DIM, docs, queue, ing,
                   duplicates, coll, nextId, lastEnsured, cache>>

\* the steps of a call after its cache lookup
AskSteps(t) ==
    \/ AskHas(t) \/ AskEmbed(t) \/ AskEnsure(t) \/ AskSearchHas(t)
    \/ AskSearch(t) \/ AskGenerate(t) \/ AskCache(t) \/ AskHistory(t)

Ask(t) ==
    \/ \E u \in Users, q \in Questions : AskBegin(t, u, q)
    \/ AskSteps(t)

\* ------------------------------------------------ duplicate trigger
\* rag.py:131: a further process_document_async task for a document that
\* is still pending (its first task has not started)
Retrigger(d) ==
    /\ ing.pc = "idle"
    /\ duplicates < MaxDuplicates
    /\ docs[d].status = "pending"
    /\ queue' = Append(queue, d)
    /\ duplicates' = duplicates + 1
    /\ UNCHANGED <<conn, MILVUS_AVAILABLE, VECTOR_DIM, docs, ing, coll, nextId,
                   lastEnsured, ask, cache, history>>

\* ---------------------------------------------------------- delete_document
\* rag.py:859-900: the stored file is deleted, then the documents row, and
\* the call returns its success message.  The call makes no Milvus call.  (A
\* call that fails is rolled back and changes nothing.)
Delete(d) ==
    /\ docs[d].status # Gone
    /\ docs' = [docs EXCEPT ![d].status = Gone, ![d].error_message = Null]
    /\ UNCHANGED <<conn, MILVUS_AVAILABLE, VECTOR_DIM, queue, ing, duplicates,
                   coll, nextId, lastEnsured, ask, cache, history>>

\* ------------------------------------------------------ migration script
\* migrate_documents.py:89-95: UPDATE documents SET status = 'processed'
\* WHERE status = 'pending' OR status IS NULL, from its own connection
MigratedStatus(status) == IF status = "pending" THEN "processed" ELSE status

Migrate ==
    /\ docs' = [d \in DOMAIN docs |->
                  [docs[d] EXCEPT !.status = MigratedStatus(@)]]
    /\ docs' # docs
    /\ UNCHANGED <<conn, MILVUS_AVAILABLE, VECTOR_DIM, queue, ing, duplicates,
                   coll, nextId, lastEnsured, ask, cache, history>>

\* ------------------------------------------------------------------ Spec
\* the server: uploads, the ingestion tasks, ask_question, cache expiry
Next ==
    \/ \E u \in Users : Upload(u)
    \/ Ingest
    \/ \E t \in Threads : Ask(t)
    \/ \E u \in Users, q \in Questions : Expire(u, q)

Spec == Init /\ [][Next]_vars

\* the ingestion pipeline with process_document_async triggered again
NextDuplicate ==
    \/ \E u \in Users : Upload(u)
    \/ Ingest
    \/ \E d \in DOMAIN docs : Retrigger(d)

SpecDuplicate == Init /\ [][NextDuplicate]_vars

\* the ingestion pipeline with migrate_documents.py run against its database
NextMigrate ==
    \/ \E u \in Users : Upload(u)
    \/ Ingest
    \/ Migrate

SpecMigrate == Init /\ [][NextMigrate]_vars

\* the ingestion pipeline with users deleting their documents
NextDelete ==
    \/ \E u \in Users : Upload(u)
    \/ Ingest
    \/ \E d \in DOMAIN docs : Delete(d)

SpecDelete == Init /\ [][NextDelete]_vars

\* questions of users who type the same question in several spellings
NextSpelling ==
    \/ \E t \in Threads, u \in Users, q \in Spellings : AskBegin(t, u, q)
    \/ \E t \in Threads : AskSteps(t)
    \/ \E u \in Users, q \in Spellings : Expire(u, q)

SpecSpelling == Init /\ [][NextSpelling]_vars

\* the answer text of user u for question q: each pair is given a text
\* of its own, so that a cached value shows whose write it is
TextOf(u, q) ==
    CASE u = 1 /\ q = <<"a", "b">> -> "answer to ab for 1"
      [] u = 1 /\ q # <<"a", "b">> -> "answer to a b for 1"
      [] u # 1 /\ q = <<"a", "b">> -> "answer to ab for 2"
      [] OTHER -> "answer to a b for 2"

\* the answer cache with two users: answers are stored, looked up at the
\* start of ask_question, and expire
NextCache ==
    \/ \E u \in CacheUsers, q \in CacheQuestions :
            CacheQaResult(u, q, TextOf(u, q))
    \/ \E t \in Threads, u \in CacheUsers, q \in CacheQuestions :
            AskBegin(t, u, q)
    \/ \E u \in CacheUsers, q \in CacheQuestions : Expire(u, q)

SpecCache == Init /\ [][NextCache]_vars

\* connect_to_milvus called at startup (main.py:76) with any max_retries
NextConnect ==
    \/ \E n \in 0..MaxRetries : ConnectCall(n)
    \/ ConnectAttempt
    \/ ConnectSleep

SpecConnect == Init /\ [][NextConnect]_vars

\* the server with every ingestion task run to its end: the event loop runs
\* a task that never awaits until it returns (the provider and store calls
\* return, the commits succeed)
SpecLive == Init /\ [][Next]_vars /\ WF_vars(Ingest)

\* ============================================================ properties
\* the create_user_collection calls in progress or just returned
CallRecords == {ing.call} \cup {ask[t].call : t \in Threads}

HasVectorOf(d) == \E v \in coll[docs[d].user].vecs : v.doc = d

\* C1: in every reachable state each document whose status is processed has
\* at least one vector tagged with its id in its user's collection.  Stated
\* for the servers whose vector store module is importable.
C1_ProcessedHasVector ==
    \A d \in DOMAIN docs :
        (MILVUS_AVAILABLE /\ docs[d].status = "processed") => HasVectorOf(d)

\* C2: when process_document_async is triggered more than once for a pending
\* document, only an execution that found the row pending proceeds; one that
\* found another status writes nothing and ends.
C2_DuplicateIsNoOp ==
    ing.pc # "idle" => ing.observed = "pending"

\* C3: once a document is processed or failed its status does not change
\* again (the transitions are pending -> processing, processing -> processed
\* and processing -> failed only).
C3_TerminalStatusKept ==
    [][\A d \in DOMAIN docs :
          docs[d].status \in {"processed", "failed"}
              => docs'[d].status = docs[d].status]_vars

\* C4: in every reachable state each failed document has an error_message
\* that is not null and has at most 255 characters.
C4_FailedHasMessage ==
    \A d \in DOMAIN docs :
        docs[d].status = "failed" =>
            /\ docs[d].error_message.set
            /\ docs[d].error_message.len <= ErrorColumnLen

\* a document failed by the generic handler on an exception text longer
\* than the column
C4_Witness ==
    \E d \in DOMAIN docs :
        /\ docs[d].status = "failed"
        /\ docs[d].error_message = Msg(GenericCut)

\* C5: in every reachable state a document's error_message is set if and
\* only if its status is failed.
C5_MessageIffFailed ==
    \A d \in DOMAIN docs :
        docs[d].error_message.set <=> docs[d].status = "failed"

\* C6: a call create_user_collection(user, d2) that found the collection
\* with another dimension d1 returns with the collection at dimension d2 and
\* holding none of the vectors it held before the call.
C6_MismatchRebuilds ==
    \A c \in CallRecords :
        (c.state = "returned" /\ c.preExists /\ c.preDim # c.dim) =>
            /\ c.postDim = c.dim
            /\ c.postFresh

\* such a call has returned, and the collection it found held vectors
C6_Witness ==
    \E c \in CallRecords :
        /\ c.state = "returned" /\ c.preExists /\ c.preDim # c.dim
        /\ c.preHeld

\* C7: a call create_user_collection(user, d) that follows a returned call
\* with the same (user, d), the collection untouched in between, drops
\* nothing, creates nothing and returns with the dimension as it was.
C7_RepeatIsNoOp ==
    \A c \in CallRecords :
        c.repeat =>
            /\ c.state = "returned"
            /\ ~c.dropped /\ ~c.created
            /\ c.postDim = c.preDim /\ c.preDim = c.dim

\* the second call has returned and the vectors are still there
C7_Witness ==
    /\ ing.call.repeat /\ ing.call.state = "returned" /\ ing.call.preHeld
    /\ coll[ing.user].vecs # {}
    /\ \A v \in coll[ing.user].vecs : v.id < ing.call.preNext

C9_NoCollectionSentinel ==
    \A t \in Threads :
        ask[t].sawColl = "no" =>
            /\ ask[t].pc = "done" /\ ask[t].result = NoDocsYet
            /\ ~ask[t].hit
            /\ ask[t].embedCalls = 0 /\ ask[t].genCalls = 0
            /\ ask[t].cacheWrites = 0 /\ ask[t].histWrites = 0

C9_Witness ==
    \E t \in Threads :
        /\ ask[t].sawColl = "no" /\ ask[t].result = NoDocsYet
        /\ MILVUS_AVAILABLE /\ ~coll[ask[t].user].exists

\* a call served from the cache: the answer is what Redis replied, and no
\* provider, store, cache write or history write took place
ServedFromCache(a) ==
    /\ a.pc = "done" /\ a.hit
    /\ a.result = a.lookup /\ IsHit(a.lookup)
    /\ a.embedCalls = 0 /\ a.storeCalls = 0 /\ a.genCalls = 0
    /\ a.cacheWrites = 0 /\ a.histWrites = 0

\* thread t, having returned an answer it produced, takes the next call, for
\* the same user and question, the cache entry not yet expired
SecondAsk(t) ==
    /\ ask[t].pc = "done" /\ ask[t].histWrites = 1
    /\ ask'[t] # ask[t]
    /\ ask'[t].user = ask[t].user /\ ask'[t].q = ask[t].q
    /\ ask[t].cacheWrites = 1 =>
            cache[CacheKey(ask[t].user, ask[t].q)] # NoEntry

C11_RoundTrip ==
    [][\A t \in Threads :
          (ask[t].pc = "cache" /\ ask'[t].cacheWrites = ask[t].cacheWrites + 1)
              => CachedAnswer(ask[t].user, ask[t].q, TRUE)' = ask[t].answer]_vars

\* C12: when building or invoking the chat model raises, the answer of the
\* call is the apology sentinel and the call goes on to the cache and
\* history writes; the provider's error never ends the call -- a call that
\* wrote its history row returns the sentinel, and the only other ending is
\* the HTTP 500 of a history commit that failed
C12_GenerationSentinel ==
    \A t \in Threads :
        ask[t].genFailed =>
            /\ ask[t].answer = Apology
            /\ ask[t].pc \in {"cache", "hist", "done"}
            /\ ask[t].pc = "done" =>
                   \/ ask[t].result = Apology /\ ask[t].histWrites = 1
                   \/ ask[t].result = Http500 /\ ask[t].histWrites = 0

\* a call whose generation failed has returned the sentinel
C12_Witness ==
    \E t \in Threads :
        /\ ask[t].pc = "done"
        /\ ask[t].genFailed
        /\ ask[t].genCalls = 1
        /\ ask[t].result = Apology

\* C13: a failure of the vector store on the query path (has_collection,
\* create_user_collection, the collection lookup of search, the search)
\* ends the call with the "no documents" sentinel
C13_StoreFailureSentinel ==
    \A t \in Threads :
        (ask[t].pc = "done" /\ ask[t].storeFault # "none")
            => ask[t].result = NoDocsYet

\* C14: once the answer is computed the call returns it, whatever happens
\* to the cache write and the history write
C14_AnswerReturned ==
    \A t \in Threads :
        (ask[t].pc = "done" /\ ask[t].answer # NoEntry)
            => ask[t].result = ask[t].answer

\* C15: an execution of process_document_async that is ended by an error in
\* loading or chunking, in setting up the embedding model, in
\* create_user_collection or the collection load, or in the insertion,
\* returns (no exception leaves it) with the document failed and a message
\* that fits the column committed
C15_ErrorsEndFailed ==
    [][(ing.pc \in {"load", "ensure", "cload", "insert"} /\ ing'.pc = "idle")
          => /\ ing' = IdleIng
             /\ docs'[ing.doc].status = "failed"
             /\ docs'[ing.doc].error_message.set
             /\ docs'[ing.doc].error_message.len <= ErrorColumnLen]_vars

\* an execution was ended by create_user_collection raising, one by the
\* insertion raising
C15_Witness ==
    /\ ing.pc = "idle"
    /\ \E d \in DOMAIN docs :
        /\ docs[d].status = "failed"
        /\ docs[d].error_message = CollectionErrorMsg(LongError)
    /\ \E d \in DOMAIN docs :
        /\ docs[d].status = "failed"
        /\ docs[d].error_message = InsertErrorMsg(LongError)

\* C16: chunks whose embedding fails are skipped and do not fail the
\* document; the execution fails the document for want of vectors exactly
\* when no chunk produced a valid vector, and then it inserts nothing and
\* ends without marking the document processed
C16_FailsIffNoVector ==
    [][/\ (ing.pc = "embed" /\ ing' # ing)
            => ing'.pc = "insert" /\ docs' = docs
       /\ (ing.pc = "insert" /\ ing' # ing)
            => /\ (ing.nvec = 0) <=>
                     /\ docs'[ing.doc].status = "failed"
                     /\ docs'[ing.doc].error_message = Msg(NoVectorMsgLen)
               /\ (ing.nvec = 0) =>
                     /\ coll' = coll
                     /\ ing' = IdleIng]_vars

\* one document was failed with no usable vector; another, with one chunk
\* of two skipped, has its vectors inserted and is about to be marked
\* processed
C16_Witness ==
    /\ \E d \in DOMAIN docs :
        /\ docs[d].status = "failed"
        /\ docs[d].error_message = Msg(NoVectorMsgLen)
        /\ ~HasVectorOf(d)
    /\ ing.pc = "finish"
    /\ 0 < ing.nvec
    /\ ing.nvec < ing.nchunks
    /\ HasVectorOf(ing.doc)

\* the collection of user u is gone because the running ingestion's
\* create_user_collection has dropped it and has not recreated it yet
RebuildGap(u) ==
    /\ ing.pc = "ensure"
    /\ ing.user = u
    /\ ing.call.state = "create"
    /\ ing.call.dropped
    /\ ~coll[u].exists

\* C17: reconciliation is serialized per user -- no call of
\* search_similar_vectors for a user (its has_collection, or its load and
\* search) runs between the drop and the recreate of a
\* create_user_collection call for the same user
C17_NoReaderInRebuild ==
    [][\A t \in Threads :
          (ask[t].pc \in {"shas", "search"} /\ ask'[t] # ask[t])
              => ~RebuildGap(ask[t].user)]_vars

\* the normalized question of the specification: runs of whitespace
\* collapsed to one blank, blanks at both ends removed
RECURSIVE Collapse(_)
Collapse(q) ==
    IF Len(q) <= 1 THEN q
    ELSE IF q[1] = " " /\ q[2] = " " THEN Collapse(Tail(q))
    ELSE <<q[1]>> \o Collapse(Tail(q))

Trim(q) ==
    LET l == IF q # <<>> /\ q[1] = " " THEN Tail(q) ELSE q
    IN  IF l # <<>> /\ l[Len(l)] = " " THEN SubSeq(l, 1, Len(l) - 1) ELSE l

Normalize(q) == Trim(Collapse(q))

\* C18: the cache key is computed from the normalized question -- when the
\* cache holds an answer stored for a user under one spelling of a
\* question, a call of the same user with a spelling that has the same
\* normalized form, whose lookup Redis answers, is a cache hit
C18_SpellingsShareEntry ==
    [][\A t \in Threads :
          (/\ ask[t].pc \in {"idle", "done"}
           /\ ask'[t] # ask[t]
           /\ ask'[t].lookup # RedisError
           /\ \E s \in Spellings :
                /\ Normalize(s) = Normalize(ask'[t].q)
                /\ IsHit(cache[CacheKey(ask'[t].user, s)]))
              => ask'[t].hit]_vars

\* C19: when delete_document has succeeded for a document, the user's
\* collection holds no vector tagged with the document's id
C19_DeleteRemovesVectors ==
    [][\A d \in DOMAIN docs :
          (docs[d].status # Gone /\ docs'[d].status = Gone)
              => \A v \in coll'[docs[d].user].vecs : v.doc # d]_vars

\* C20: processing is committed before the execution does anything else --
\* in every state in which an execution of process_document_async is past
\* its start (checking Milvus, loading, chunking, embedding, calling the
\* vector store) the status of its document in the database is not pending
C20_ProcessingFirst ==
    ing.pc # "idle" => docs[ing.doc].status # "pending"

\* an execution is about to load the file, its document committed as
\* processing
C20_Witness ==
    /\ ing.pc = "load"
    /\ ing.observed = "pending"
    /\ docs[ing.doc].status = "processing"

\* C21: a document is marked processed only by an execution whose insert
\* and flush have returned -- every step that commits processed is the
\* step after the insertion of that document's vectors succeeded
C21_ProcessedAfterInsert ==
    [][\A d \in DOMAIN docs :
          (docs[d].status # "processed" /\ docs'[d].status = "processed")
              => ing.pc = "finish" /\ ing.doc = d /\ ing.nvec > 0]_vars

\* C22: every execution of process_document_async that has found its
\* document comes to its end, and at its end the document is processed or
\* failed, not pending and not processing
C22_ExecutionTerminates ==
    \A d \in 1..MaxDocs :
        (ing.pc # "idle" /\ ing.doc = d)
            ~> /\ ing.pc = "idle"
               /\ d \in DOMAIN docs
               /\ docs[d].status \in {"processed", "failed"}

\* both executions have ended, one document processed and one failed
C22_Witness ==
    /\ ing.pc = "idle"
    /\ queue = <<>>
    /\ \E d \in DOMAIN docs : docs[d].status = "processed"
    /\ \E d \in DOMAIN docs : docs[d].status = "failed"

\* C23: the ingestion reconciles the collection only with a measured
\* dimension -- every step of its create_user_collection call that creates
\* or drops the user's collection belongs to an execution whose probe
\* vector was returned and measured
C23_MeasuredDimensionOnly ==
    [][(ing.pc = "ensure" /\ ing' # ing /\ coll' # coll) => ing.measured]_vars

\* C24: every search of ask_question is made with a query vector of the
\* length of the user's collection as it is when the search is made, with
\* the embedded question and with the placeholder vector alike
C24_QueryDimMatches ==
    [][\A t \in Threads :
          (ask[t].pc = "search" /\ ask'[t] # ask[t])
              => /\ coll[ask[t].user].exists
                 /\ coll[ask[t].user].dim = ask[t].qdim]_vars

\* C25: the chat model is called exactly when the context built from the
\* hits is not empty, and then once; with an empty context the answer is
\* the "nothing found" sentinel and the chat model is not called
C25_GenerationIffContext ==
    \A t \in Threads :
        /\ ask[t].genCalls > 0 => ask[t].hasHits
        /\ ask[t].pc \in {"cache", "hist", "done"} /\ ask[t].answer # NoEntry
              => /\ ask[t].genCalls = (IF ask[t].hasHits THEN 1 ELSE 0)
                 /\ ~ask[t].hasHits => ask[t].answer = NothingFound
                 /\ (ask[t].pc = "done" /\ ask[t].histWrites = 1)
                        => ask[t].result = ask[t].answer

\* one call returned a generated answer from a context with hits
C25_Witness ==
    \E t \in Threads :
        /\ ask[t].pc = "done"
        /\ ask[t].hasHits
        /\ ask[t].genCalls = 1
        /\ ~ask[t].genFailed
        /\ ask[t].result = "answer"

\* a call with an empty context returned the sentinel without the chat
\* model
C25_WitnessEmpty ==
    \E t \in Threads :
        /\ ask[t].pc = "done"
        /\ ~ask[t].hasHits
        /\ ask[t].genCalls = 0
        /\ ask[t].result = NothingFound

\* the call has its answer: it got past the search step
PastSearch(a) == a.answer # NoEntry

\* C26: a call writes the cache and the history exactly when it gets past
\* the search step -- it then calls cache_qa_result once, the entry Redis
\* takes is its answer, and the one history row it commits holds the answer
\* it returns; a call that returns on a cache hit or on the "no documents
\* yet" sentinel calls neither.  (A call whose history commit fails returns
\* HTTP 500 and leaves no row.)
C26_WritesIffPastSearch ==
    [][/\ \A k \in DOMAIN cache :
            (cache'[k] # cache[k] /\ cache'[k] # NoEntry)
                => \E t \in Threads :
                      /\ ask[t].pc = "cache"
                      /\ k = CacheKey(ask[t].user, ask[t].q)
                      /\ cache'[k] = ask[t].answer
       /\ \A t \in Threads :
          LET a == ask[t]
              b == ask'[t]
              key == CacheKey(a.user, a.q)
          IN  /\ (b.cacheCalls > 0 \/ b.histWrites > 0) => PastSearch(b)
              /\ (b.hit \/ b.sawColl = "no")
                    => b.cacheCalls = 0 /\ b.histWrites = 0 /\ ~PastSearch(b)
              /\ (PastSearch(b) /\ b.pc \in {"hist", "done"})
                    => b.cacheCalls = 1 /\ b.cacheWrites <= 1
              /\ b.cacheWrites = a.cacheWrites + 1
                    => a.pc = "cache" /\ cache'[key] = a.answer
              /\ (PastSearch(b) /\ b.pc = "done")
                    => \/ /\ b.result = b.answer
                          /\ b.histWrites = 1
                          /\ a.pc = "hist" =>
                                history' = Append(history,
                                    [user |-> a.user, question |-> a.q,
                                     answer |-> b.result])
                       \/ /\ b.result = Http500
                          /\ b.histWrites = 0
                          /\ a.pc = "hist" => history' = history
              /\ Len(history') # Len(history) => a.pc = "hist"]_vars

\* a call returned a generated answer, cached and recorded
C26_Witness ==
    \E t \in Threads :
        /\ ask[t].pc = "done"
        /\ ask[t].result = "answer"
        /\ ask[t].cacheWrites = 1
        /\ ask[t].histWrites = 1
        /\ cache[CacheKey(ask[t].user, ask[t].q)] = "answer"
        /\ history = <<[user |-> ask[t].user, question |-> ask[t].q,
                        answer |-> "answer"]>>

\* C27: a call whose question embedding failed does not fail for it -- it
\* searches with the placeholder vector and returns an answer; when it ends
\* with an error, the error is one of the vector store being unreachable
\* or of the history commit, not one of the placeholder
C27_EmbeddingFailureAnswered ==
    \A t \in Threads :
        (ask[t].pc = "done" /\ ask[t].embedded = "failed")
            => \/ ask[t].result = ask[t].answer /\ ask[t].result # NoEntry
               \/ /\ ask[t].result = Http500
                  /\ \/ ask[t].storeFault \in {"has_collection", "search"}
                     \/ ask[t].answer # NoEntry

\* C28: an execution that ends with its document failed has not changed
\* the user's collection -- none of its steps, the last included, has
\* created, dropped or extended it
C28_FailedLeavesCollection ==
    [][(/\ ing.pc # "idle"
        /\ ing'.pc = "idle"
        /\ docs'[ing.doc].status = "failed")
          => /\ ~ing.touched
             /\ coll'[ing.user] = coll[ing.user]]_vars

\* C29: cache entries are isolated per (user, question) -- the entry under
\* the key of (u, q) is a value written for (u, q), and a call of user u
\* with question q that is served from the cache returns a value written
\* for (u, q), never one written for another user or another question
C29_CacheIsolation ==
    /\ \A u \in CacheUsers, q \in CacheQuestions :
          cache[CacheKey(u, q)] \in {NoEntry, TextOf(u, q)}
    /\ \A t \in Threads :
          ask[t].hit => ask[t].result = TextOf(ask[t].user, ask[t].q)

\* both users have an answer cached for the same question and user 2 has
\* been served its own
C29_Witness ==
    \E t \in Threads, q \in CacheQuestions :
        /\ ask[t].hit
        /\ ask[t].user = 2
        /\ ask[t].q = q
        /\ ask[t].result = TextOf(2, q)
        /\ cache[CacheKey(1, q)] = TextOf(1, q)
        /\ cache[CacheKey(2, q)] = TextOf(2, q)

\* what holds of a connect_to_milvus call c with max_retries >= 1 at any
\* moment
ConnectBounded(c) ==
    /\ c.attempts <= c.max_retries
    /\ c.result # "False"
    /\ c.slept = [i \in 1..Len(c.slept) |-> 2 ^ (i - 1)]
    /\ c.pc = "try" => c.attempts = Len(c.slept) /\ c.attempts < c.max_retries
    /\ c.pc = "sleep" =>
          c.attempts = Len(c.slept) + 1 /\ c.attempts < c.max_retries
    /\ c.pc = "returned" =>
          c.result = "True" /\ Len(c.slept) = c.attempts - 1
    /\ c.pc = "raised" =>
          /\ c.result = "raised"
          /\ c.attempts = c.max_retries
          /\ Len(c.slept) = c.max_retries - 1

C30_WitnessConnected ==
    /\ conn.pc = "returned"
    /\ conn.max_retries = 3
    /\ conn.result = "True"
    /\ conn.attempts = 3
    /\ conn.slept = <<1, 2>>

====
